---- MODULE Spec2Model ----
(***************************************************************************)
(* HistoryAnalyzer (src/src/core/history_analyzer.py): the history         *)
(* analytics engine.  A call queries the sample store (self.db_manager),   *)
(* aggregates the returned rows and returns a summary record, a ranking    *)
(* or a matplotlib figure.                                                 *)
(*                                                                         *)
(* Numbers.  cpu_percent, memory_percent, disk_percent and memory_mb are   *)
(* binary floating-point values.  A float is modelled by the integer       *)
(* number of quanta it holds, 1.0 being Unit quanta, and is representable  *)
(* when it has at most Precision significant bits; every arithmetic        *)
(* result is rounded to nearest, ties to even, as IEEE 754 does            *)
(* (float64 has 53 significant bits).  Timestamps and timedeltas are       *)
(* whole hours.                                                            *)
(***************************************************************************)
EXTENDS Integers, Sequences, FiniteSets, TLC

\* ---------------------------------------------------------------- bounds
Precision == 4      \* significant bits of a float
MaxRows == 3        \* most sample rows the store holds, both tables together
MaxClock == 1       \* the wall clock runs from 0 to MaxClock hours
MaxHours == 2       \* largest windowHours a caller passes
MaxLimit == 3       \* largest limit a caller passes
MaxFigs == 2        \* most figures pyplot's registry holds
MaxChartRows == 2   \* most sample rows stored while two threads build charts
MaxRepeatRows == 2  \* most sample rows stored while a caller repeats its calls
MaxEngineRows == 2  \* most sample rows the store holds while it may fail or shrink
MaxEngineFigs == 1  \* most figures one caller creates while the store may fail

\* ------------------------------------------------------- float arithmetic
RECURSIVE Pow2(_)
Pow2(n) == IF n <= 0 THEN 1 ELSE 2 * Pow2(n - 1)

\* 1.0, in quanta
Unit == Pow2(Precision)

\* a / b rounded to the nearest integer, ties to even (a >= 0, b > 0)
RoundHalfEven(a, b) ==
    LET q == a \div b
        r == a % b
    IN  IF 2 * r < b THEN q
        ELSE IF 2 * r > b THEN q + 1
        ELSE IF q % 2 = 0 THEN q ELSE q + 1

\* the exponent of a / b: the least k >= 0 with a / b < 2^(Precision + k)
RECURSIVE Exponent(_, _, _)
Exponent(a, b, k) ==
    IF a < Pow2(Precision + k) * b THEN k ELSE Exponent(a, b, k + 1)

\* the float nearest to the exact quotient a / b
FRound(a, b) ==
    LET k == Exponent(a, b, 0)
    IN  RoundHalfEven(a, b * Pow2(k)) * Pow2(k)

FAdd(x, y) == FRound(x + y, 1)

FDiv(x, n) == FRound(x, n)

\* int64 -> float64, as Series.mean does for an integer column
FromInt(n) == FRound(n * Unit, 1)

\* int(x): truncation toward zero (x >= 0)
ToIntRounded(x) == RoundHalfEven(x, Unit)
ToInt(x) == x \div Unit

\* ---------------------------------------------------------------- columns
Column(df, f) == [i \in 1..Len(df) |-> df[i][f]]

RECURSIVE FSum(_)
FSum(col) ==
    IF Len(col) = 0 THEN 0
    ELSE FAdd(FSum(SubSeq(col, 1, Len(col) - 1)), col[Len(col)])

\* Series.mean() of a float column: the float sum divided by the count
MeanWrong(col) == FSum(col)
Mean(col) == FDiv(FSum(col), Len(col))

\* Series.max() / Series.min()
MaxOfLast(col) == col[Len(col)]
MinOfFirst(col) == col[1]
MaxOf(col) == CHOOSE v \in {col[i] : i \in 1..Len(col)} :
                 \A j \in 1..Len(col) : col[j] <= v
MinOf(col) == CHOOSE v \in {col[i] : i \in 1..Len(col)} :
                 \A j \in 1..Len(col) : v <= col[j]

\* Series.mean() of the int64 column total_processes
IntMean(col) == Mean([i \in 1..Len(col) |-> FromInt(col[i])])

\* ---------------------------------------------------------------- inputs
\* telemetry a collector may record in one system sample
SysProfiles ==
    { [cpu_percent |-> 14 * Unit, memory_percent |-> 8 * Unit,
       disk_percent |-> 1 * Unit, total_processes |-> 1],
      [cpu_percent |-> 2 * Unit, memory_percent |-> 12 * Unit,
       disk_percent |-> 2 * Unit, total_processes |-> 2] }

\* telemetry a collector may record in one process sample
ProcProfiles ==
    { [process_name |-> "init", cpu_percent |-> 14 * Unit, memory_mb |-> 8 * Unit],
      [process_name |-> "init", cpu_percent |-> 2 * Unit, memory_mb |-> 12 * Unit],
      [process_name |-> "sshd", cpu_percent |-> 5 * Unit, memory_mb |-> 2 * Unit] }

StoredNames == {p.process_name : p \in ProcProfiles}

\* arguments a caller may pass
HoursArgs == 0..MaxHours
LimitArgs == 0..MaxLimit
NameArgs == StoredNames \cup {"", "ghost"}

None == [none |-> TRUE]

VARIABLES
    clock,      \* datetime.now(), in hours
    sysStore,   \* the store's system samples, in row order
    procStore,  \* the store's process samples, in row order
    pc,         \* pc[c]: where caller c's call stands
    op,         \* op[c]: the method caller c called
    arg,        \* arg[c]: its argument (hours, limit or process_name)
    df,         \* df[c]: the rows the store returned to the call
    tmp,        \* tmp[c]: start_time of the empty summary, once evaluated
    res,        \* res[c]: the call's return value
    nq,         \* nq[c]: store queries the call has issued
    stale,      \* stale[c]: the store has changed since the call queried it
                \*           (since the first call did, when the call is repeated)
    first,      \* first[c]: the previous call's rows and return value, when the
                \*           caller repeats it with the same argument
    figs,       \* pyplot's figure registry; its last figure is the current one
    fig,        \* fig[c]: the number of the figure the call created
    exc,        \* exc[c]: the exception that left the call, if one did
    fault       \* fault[c]: the error the store raised in the call's query

vars == <<clock, sysStore, procStore, pc, op, arg, df, tmp, res, nq,
          stale, first, figs, fig, exc, fault>>

Callers == {1}
TotalRows == Len(sysStore) + Len(procStore)

\* ------------------------------------------------------------ sample store
\* db_manager.get_system_history(hours): the samples of the last `hours` hours
get_system_history(hours) ==
    SelectSeq(sysStore,
              LAMBDA r : clock - hours <= r.timestamp /\ r.timestamp <= clock)

\* db_manager.get_process_trend(process_name): exact name match, row order
get_process_trend(process_name) ==
    SelectSeq(procStore, LAMBDA r : r.process_name = process_name)

\* one ranking row: a process name's averages over all its samples
RankingEntry(n) ==
    LET rows == get_process_trend(n)
    IN  [name |-> n,
         avg_cpu |-> Mean(Column(rows, "cpu_percent")),
         avg_memory |-> Mean(Column(rows, "memory_mb")),
         count |-> Len(rows)]

RECURSIVE Ranked(_)
Ranked(names) ==
    IF names = {} THEN <<>>
    ELSE LET best == CHOOSE n \in names :
                        \A m \in names :
                            RankingEntry(n).avg_cpu >= RankingEntry(m).avg_cpu
         IN  <<RankingEntry(best)>> \o Ranked(names \ {best})

\* db_manager.get_top_processes_by_cpu(limit): ORDER BY avg_cpu DESC LIMIT limit
get_top_processes_by_cpu(limit) ==
    LET all == Ranked({r.process_name : r \in {procStore[i] : i \in 1..Len(procStore)}})
        k == IF limit < 0 THEN 0 ELSE IF limit < Len(all) THEN limit ELSE Len(all)
    IN  SubSeq(all, 1, k)

\* ------------------------------------------------------------------ engine
Reverse(s) == [i \in 1..Len(s) |-> s[Len(s) + 1 - i]]

\* get_top_processes: the store's ranking, passed through
get_top_processes_reversed(limit) == Reverse(get_top_processes_by_cpu(limit))
get_top_processes(limit) == get_top_processes_by_cpu(limit)

\* get_system_summary, df.empty
EmptySummary(start, end) ==
    [cpu_avg |-> 0, cpu_max |-> 0, memory_avg |-> 0, memory_max |-> 0,
     disk_avg |-> 0, disk_max |-> 0, processes_avg |-> 0,
     start_time |-> start, end_time |-> end, data_points |-> 0]

\* get_system_summary, rows returned
SystemSummaryRecounted(d) ==
    [cpu_avg |-> Mean(Column(d, "cpu_percent")),
     cpu_max |-> MaxOf(Column(d, "cpu_percent")),
     memory_avg |-> Mean(Column(d, "memory_percent")),
     memory_max |-> MaxOf(Column(d, "memory_percent")),
     disk_avg |-> Mean(Column(d, "disk_percent")),
     disk_max |-> MaxOf(Column(d, "disk_percent")),
     processes_avg |-> ToInt(IntMean(Column(d, "total_processes"))),
     start_time |-> MinOf(Column(d, "timestamp")),
     end_time |-> MaxOf(Column(d, "timestamp")),
     data_points |-> Len(sysStore)]
SystemSummaryNow(d) ==
    [cpu_avg |-> Mean(Column(d, "cpu_percent")),
     cpu_max |-> MaxOf(Column(d, "cpu_percent")),
     memory_avg |-> Mean(Column(d, "memory_percent")),
     memory_max |-> MaxOf(Column(d, "memory_percent")),
     disk_avg |-> Mean(Column(d, "disk_percent")),
     disk_max |-> MaxOf(Column(d, "disk_percent")),
     processes_avg |-> ToInt(IntMean(Column(d, "total_processes"))),
     start_time |-> MinOf(Column(d, "timestamp")),
     end_time |-> clock,
     data_points |-> Len(d)]
SystemSummary(d) ==
    [cpu_avg |-> Mean(Column(d, "cpu_percent")),
     cpu_max |-> MaxOf(Column(d, "cpu_percent")),
     memory_avg |-> Mean(Column(d, "memory_percent")),
     memory_max |-> MaxOf(Column(d, "memory_percent")),
     disk_avg |-> Mean(Column(d, "disk_percent")),
     disk_max |-> MaxOf(Column(d, "disk_percent")),
     processes_avg |-> ToInt(IntMean(Column(d, "total_processes"))),
     start_time |-> MinOf(Column(d, "timestamp")),
     end_time |-> MaxOf(Column(d, "timestamp")),
     data_points |-> Len(d)]

\* get_process_analysis, after the query
\* (unguarded, the mean and maximum of no rows are NaN: here -1)
ProcessAnalysisUnguarded(process_name, d) ==
    [name |-> process_name,
     cpu_avg |-> IF Len(d) = 0 THEN -1 ELSE Mean(Column(d, "cpu_percent")),
     cpu_max |-> IF Len(d) = 0 THEN -1 ELSE MaxOf(Column(d, "cpu_percent")),
     memory_avg |-> IF Len(d) = 0 THEN -1 ELSE Mean(Column(d, "memory_mb")),
     memory_max |-> IF Len(d) = 0 THEN -1 ELSE MaxOf(Column(d, "memory_mb")),
     data_points |-> Len(d),
     trend_data |-> d]
ProcessAnalysis(process_name, d) ==
    IF Len(d) = 0
    THEN [name |-> process_name, cpu_avg |-> 0, cpu_max |-> 0,
          memory_avg |-> 0, memory_max |-> 0, data_points |-> 0,
          trend_data |-> <<>>]
    ELSE [name |-> process_name,
          cpu_avg |-> Mean(Column(d, "cpu_percent")),
          cpu_max |-> MaxOf(Column(d, "cpu_percent")),
          memory_avg |-> Mean(Column(d, "memory_mb")),
          memory_max |-> MaxOf(Column(d, "memory_mb")),
          data_points |-> Len(d),
          trend_data |-> d]

QueryOps == {"get_system_summary", "get_top_processes", "get_process_analysis"}

ArgsOf(o) ==
    CASE o = "get_system_summary" -> HoursArgs
      [] o = "get_top_processes" -> LimitArgs
      [] o = "get_process_analysis" -> NameArgs

\* what the call's db_manager query returns now
StoreQuery(o, a) ==
    CASE o = "get_system_summary" -> get_system_history(a)
      [] o = "get_top_processes" -> get_top_processes(a)
      [] o = "get_process_analysis" -> get_process_trend(a)

\* ------------------------------------------------------------------- state
Init ==
    /\ clock = 0
    /\ sysStore = <<>>
    /\ procStore = <<>>
    /\ pc = [c \in {1, 2} |-> "idle"]
    /\ op = [c \in {1, 2} |-> "none"]
    /\ arg = [c \in {1, 2} |-> 0]
    /\ df = [c \in {1, 2} |-> <<>>]
    /\ tmp = [c \in {1, 2} |-> 0]
    /\ res = [c \in {1, 2} |-> None]
    /\ nq = [c \in {1, 2} |-> 0]
    /\ stale = [c \in {1, 2} |-> FALSE]
    /\ first = [c \in {1, 2} |-> None]
    /\ figs = <<>>
    /\ fig = [c \in {1, 2} |-> 0]
    /\ exc = [c \in {1, 2} |-> None]
    /\ fault = [c \in {1, 2} |-> None]

\* ------------------------------------------------------------- environment
\* the wall clock advances
Tick ==
    /\ clock < MaxClock
    /\ clock' = clock + 1
    /\ UNCHANGED <<sysStore, procStore, pc, op, arg, df, tmp, res, nq,
                   stale, first, figs, fig,
                   exc, fault>>

\* a write to the store, seen from the calls that have queried it
Changed ==
    [c \in {1, 2} |->
        stale[c] \/ (op[c] \in QueryOps /\ pc[c] # "idle")]

\* the collector stores a system sample taken now or within the last hour
InsertSystemSample ==
    /\ TotalRows < MaxRows
    /\ \E p \in SysProfiles, t \in {clock - 1, clock} :
          /\ t >= 0
          /\ sysStore' = Append(sysStore,
                 [timestamp |-> t, cpu_percent |-> p.cpu_percent,
                  memory_percent |-> p.memory_percent,
                  disk_percent |-> p.disk_percent,
                  total_processes |-> p.total_processes])
    /\ stale' = Changed
    /\ UNCHANGED <<clock, procStore, pc, op, arg, df, tmp, res, nq,
                   first, figs, fig,
                   exc, fault>>

\* the collector stores a process sample taken now
InsertProcessSample ==
    /\ TotalRows < MaxRows
    /\ \E p \in ProcProfiles :
          /\ procStore' = Append(procStore,
                 [process_name |-> p.process_name, timestamp |-> clock,
                  cpu_percent |-> p.cpu_percent, memory_mb |-> p.memory_mb])
    /\ stale' = Changed
    /\ UNCHANGED <<clock, sysStore, pc, op, arg, df, tmp, res, nq,
                   first, figs, fig,
                   exc, fault>>

\* ------------------------------------------------------------ query calls
\* the call's first statement: df = self.db_manager.<query>(argument);
\* get_top_processes returns it
Query(c, o, a) ==
    /\ op' = [op EXCEPT ![c] = o]
    /\ arg' = [arg EXCEPT ![c] = a]
    /\ df' = [df EXCEPT ![c] = StoreQuery(o, a)]
    /\ nq' = [nq EXCEPT ![c] = 1]
    /\ tmp' = [tmp EXCEPT ![c] = 0]
    /\ IF o = "get_top_processes"
       THEN /\ res' = [res EXCEPT ![c] = df'[c]]
            /\ pc' = [pc EXCEPT ![c] = "done"]
       ELSE /\ res' = [res EXCEPT ![c] = None]
            /\ pc' = [pc EXCEPT ![c] = "build"]

\* a caller invokes one of the three query methods
Call(c) ==
    /\ pc[c] = "idle"
    /\ \E o \in QueryOps :
          \E a \in ArgsOf(o) : Query(c, o, a)
    /\ UNCHANGED <<clock, sysStore, procStore, stale, first, figs, fig,
                   exc, fault>>

\* the caller repeats the call it has just finished, with the same argument
CallAgain(c) ==
    /\ pc[c] = "done"
    /\ op[c] \in QueryOps
    /\ first' = [first EXCEPT ![c] = [df |-> df[c], res |-> res[c]]]
    /\ Query(c, op[c], arg[c])
    /\ UNCHANGED <<clock, sysStore, procStore, stale, figs, fig,
                   exc, fault>>

\* get_system_summary, df.empty: 'start_time': datetime.now() - timedelta(hours)
SummaryStartTimeLate(c) == clock
SummaryStartTime(c) == clock - arg[c]

SummaryStart(c) ==
    /\ pc[c] = "build"
    /\ op[c] = "get_system_summary"
    /\ Len(df[c]) = 0
    /\ tmp' = [tmp EXCEPT ![c] = SummaryStartTime(c)]
    /\ pc' = [pc EXCEPT ![c] = "end_time"]
    /\ UNCHANGED <<clock, sysStore, procStore, op, arg, df, res, nq,
                   stale, first, figs, fig,
                   exc, fault>>

\* get_system_summary, df.empty: 'end_time': datetime.now(), and the return
SummaryEnd(c) ==
    /\ pc[c] = "end_time"
    /\ res' = [res EXCEPT ![c] = EmptySummary(tmp[c], clock)]
    /\ pc' = [pc EXCEPT ![c] = "done"]
    /\ UNCHANGED <<clock, sysStore, procStore, op, arg, df, tmp, nq,
                   stale, first, figs, fig,
                   exc, fault>>

\* get_system_summary, rows returned: the summary dict, and the return
SummaryBuild(c) ==
    /\ pc[c] = "build"
    /\ op[c] = "get_system_summary"
    /\ Len(df[c]) > 0
    /\ res' = [res EXCEPT ![c] = SystemSummary(df[c])]
    /\ pc' = [pc EXCEPT ![c] = "done"]
    /\ UNCHANGED <<clock, sysStore, procStore, op, arg, df, tmp, nq,
                   stale, first, figs, fig,
                   exc, fault>>

\* get_process_analysis: the analysis dict, and the return
AnalysisBuild(c) ==
    /\ pc[c] = "build"
    /\ op[c] = "get_process_analysis"
    /\ res' = [res EXCEPT ![c] = ProcessAnalysis(arg[c], df[c])]
    /\ pc' = [pc EXCEPT ![c] = "done"]
    /\ UNCHANGED <<clock, sysStore, procStore, op, arg, df, tmp, nq,
                   stale, first, figs, fig,
                   exc, fault>>

\* the caller has taken the return value
Return(c) ==
    /\ pc[c] = "done"
    /\ pc' = [pc EXCEPT ![c] = "idle"]
    /\ op' = [op EXCEPT ![c] = "none"]
    /\ arg' = [arg EXCEPT ![c] = 0]
    /\ df' = [df EXCEPT ![c] = <<>>]
    /\ tmp' = [tmp EXCEPT ![c] = 0]
    /\ res' = [res EXCEPT ![c] = None]
    /\ nq' = [nq EXCEPT ![c] = 0]
    /\ stale' = [stale EXCEPT ![c] = FALSE]
    /\ first' = [first EXCEPT ![c] = None]
    /\ fig' = [fig EXCEPT ![c] = 0]
    /\ UNCHANGED <<clock, sysStore, procStore, figs,
                   exc, fault>>

\* ------------------------------------------------------------------ pyplot
\* matplotlib keeps one registry of figures for the whole process; the figure
\* created last is the current one, and in a figure the axes added last are
\* the current axes.  plt.xticks, plt.title and plt.tight_layout act on the
\* current figure; ax.<method> acts on the axes object it is called on.
\* (Colours, line widths and tick parameters are left out.)
NewAxes ==
    [texts |-> <<>>, lines |-> <<>>, bars |-> <<>>, xlabel |-> "", ylabel |-> "",
     title |-> <<>>, grid |-> FALSE, xrot |-> 0, legend |-> <<>>]

\* fig, ax = plt.subplots(figsize=(10, 6))
NewFigure == [axes |-> <<NewAxes>>, tight |-> FALSE]

\* f'{height:.1f}': tenths, the exact value rounded half to even
Format1(x) == RoundHalfEven(x * 10, Unit)

\* ax.text(0.5, 0.5, "No data available[ for <name>]", ...)
NoDataText(o, a) ==
    IF o = "generate_process_trend_chart"
    THEN <<"No data available for", a>>
    ELSE <<"No data available">>

PlaceholderFigure(f, o, a) ==
    [f EXCEPT !.axes[1].texts = Append(@, NoDataText(o, a))]

\* generate_cpu_usage_chart / generate_memory_usage_chart: ax.plot ... ax.grid
UsageChartDrawReversed(f, hours, d, column, fmt, ylabel, title) ==
    [f EXCEPT !.axes[1] =
        [@ EXCEPT !.lines = Append(@, [x |-> Column(d, "timestamp"),
                                       y |-> Reverse(Column(d, column)),
                                       fmt |-> fmt, label |-> ""]),
                  !.xlabel = "Time",
                  !.ylabel = ylabel,
                  !.title = <<title, hours, "Hours">>,
                  !.grid = TRUE]]
UsageChartDraw(f, hours, d, column, fmt, ylabel, title) ==
    [f EXCEPT !.axes[1] =
        [@ EXCEPT !.lines = Append(@, [x |-> Column(d, "timestamp"),
                                       y |-> Column(d, column),
                                       fmt |-> fmt, label |-> ""]),
                  !.xlabel = "Time",
                  !.ylabel = ylabel,
                  !.title = <<title, hours, "Hours">>,
                  !.grid = TRUE]]

\* generate_top_processes_chart: ax.bar ... the value label over each bar
TopChartDraw(f, limit, d) ==
    [f EXCEPT !.axes[1] =
        [@ EXCEPT !.bars = [i \in 1..Len(d) |->
                               [x |-> d[i].name, height |-> d[i].avg_cpu]],
                  !.xlabel = "Process Name",
                  !.ylabel = "Average CPU Usage (%)",
                  !.title = <<"Top", limit, "Processes by CPU Usage">>,
                  !.texts = [i \in 1..Len(d) |-> <<Format1(d[i].avg_cpu), "%">>]]]

\* generate_process_trend_chart: ax2 = ax1.twinx() ... ax2.tick_params
TrendChartDraw(f, d) ==
    [f EXCEPT !.axes =
        << [f.axes[1] EXCEPT
               !.lines = Append(@, [x |-> Column(d, "timestamp"),
                                    y |-> Column(d, "cpu_percent"),
                                    fmt |-> "b-", label |-> "CPU Usage"]),
               !.xlabel = "Time",
               !.ylabel = "CPU Usage (%)"],
           [NewAxes EXCEPT
               !.lines = Append(@, [x |-> Column(d, "timestamp"),
                                    y |-> Column(d, "memory_mb"),
                                    fmt |-> "r-", label |-> "Memory Usage"]),
               !.ylabel = "Memory Usage (MB)"] >>]

\* ax1.legend(lines1 + lines2, labels1 + labels2, loc='upper left')
TrendChartLegend(f) ==
    [f EXCEPT !.axes[1].legend =
        [i \in 1..Len(f.axes[1].lines) |-> f.axes[1].lines[i].label]
        \o [i \in 1..Len(f.axes[2].lines) |-> f.axes[2].lines[i].label]]

\* plt.title(...): gca().set_title(...)
SetTitle(f, t) == [f EXCEPT !.axes[Len(f.axes)].title = t]

\* plt.xticks(rotation=45): the tick labels of gca()
SetXticks(f, rotation) == [f EXCEPT !.axes[Len(f.axes)].xrot = rotation]

\* plt.tight_layout(): gcf().tight_layout()
TightLayout(f) == [f EXCEPT !.tight = TRUE]

TrendTitle(name) == <<"CPU and Memory Trends for", name>>

ChartOps == {"generate_cpu_usage_chart", "generate_memory_usage_chart",
             "generate_top_processes_chart", "generate_process_trend_chart"}

\* the dialog passes a period, a count and a listed or typed process name
ChartArgsOf(o) ==
    CASE o = "generate_cpu_usage_chart" -> HoursArgs \ {0}
      [] o = "generate_memory_usage_chart" -> HoursArgs \ {0}
      [] o = "generate_top_processes_chart" -> LimitArgs \ {0}
      [] o = "generate_process_trend_chart" -> NameArgs \ {""}

\* what the chart method's query returns now
ChartQueryRows(o, a) ==
    CASE o = "generate_cpu_usage_chart" -> get_system_history(a)
      [] o = "generate_memory_usage_chart" -> get_system_history(a)
      [] o = "generate_top_processes_chart" -> get_top_processes(a)
      [] o = "generate_process_trend_chart" -> get_process_trend(a)

\* the statements between plt.subplots and the first plt.<call> after it
ChartDraw(f, o, a, d) ==
    CASE o = "generate_cpu_usage_chart" ->
            UsageChartDraw(f, a, d, "cpu_percent", "b-", "CPU Usage (%)",
                           "CPU Usage Over the Last")
      [] o = "generate_memory_usage_chart" ->
            UsageChartDraw(f, a, d, "memory_percent", "r-", "Memory Usage (%)",
                           "Memory Usage Over the Last")
      [] o = "generate_top_processes_chart" -> TopChartDraw(f, a, d)
      [] o = "generate_process_trend_chart" -> TrendChartDraw(f, d)

\* chart calls that have not yet created their figure
PendingFigures == Cardinality({c \in {1, 2} : pc[c] = "subplots"})

\* a caller invokes one of the four chart methods, which queries the store:
\* df = self.db_manager.<query>(argument)  (self.get_top_processes(limit))
CallChart(c) ==
    /\ pc[c] = "idle"
    /\ Len(figs) + PendingFigures < MaxFigs
    /\ \E o \in ChartOps :
          \E a \in ChartArgsOf(o) :
              /\ op' = [op EXCEPT ![c] = o]
              /\ arg' = [arg EXCEPT ![c] = a]
              /\ df' = [df EXCEPT ![c] = ChartQueryRows(o, a)]
    /\ nq' = [nq EXCEPT ![c] = 1]
    /\ pc' = [pc EXCEPT ![c] = "subplots"]
    /\ UNCHANGED <<clock, sysStore, procStore, tmp, res,
                   stale, first, figs, fig,
                   exc, fault>>

\* fig, ax = plt.subplots(figsize=(10, 6)): a new figure, now the current one
Subplots(c) ==
    /\ pc[c] = "subplots"
    /\ figs' = Append(figs, NewFigure)
    /\ fig' = [fig EXCEPT ![c] = Len(figs) + 1]
    /\ pc' = [pc EXCEPT ![c] = IF Len(df[c]) = 0 THEN "text" ELSE "draw"]
    /\ UNCHANGED <<clock, sysStore, procStore, op, arg, df, tmp, res, nq,
                   stale, first,
                   exc, fault>>

\* df.empty: ax.text(0.5, 0.5, "No data available ..."); return fig
Placeholder(c) ==
    /\ pc[c] = "text"
    /\ figs' = [figs EXCEPT ![fig[c]] = PlaceholderFigure(@, op[c], arg[c])]
    /\ res' = [res EXCEPT ![c] = fig[c]]
    /\ pc' = [pc EXCEPT ![c] = "done"]
    /\ UNCHANGED <<clock, sysStore, procStore, op, arg, df, tmp, nq,
                   stale, first, fig,
                   exc, fault>>

\* the ax.<method> calls that draw the rows on the call's own axes
Draw(c) ==
    /\ pc[c] = "draw"
    /\ figs' = [figs EXCEPT ![fig[c]] = ChartDraw(@, op[c], arg[c], df[c])]
    /\ pc' = [pc EXCEPT ![c] = IF op[c] = "generate_process_trend_chart"
                               THEN "title" ELSE "xticks"]
    /\ UNCHANGED <<clock, sysStore, procStore, op, arg, df, tmp, res, nq,
                   stale, first, fig,
                   exc, fault>>

\* generate_process_trend_chart: plt.title(f'CPU and Memory Trends for ...')
Title(c) ==
    /\ pc[c] = "title"
    /\ figs' = [figs EXCEPT ![Len(figs)] = SetTitle(@, TrendTitle(arg[c]))]
    /\ pc' = [pc EXCEPT ![c] = "legend"]
    /\ UNCHANGED <<clock, sysStore, procStore, op, arg, df, tmp, res, nq,
                   stale, first, fig,
                   exc, fault>>

\* generate_process_trend_chart: ax1.legend(...)
Legend(c) ==
    /\ pc[c] = "legend"
    /\ figs' = [figs EXCEPT ![fig[c]] = TrendChartLegend(@)]
    /\ pc' = [pc EXCEPT ![c] = "xticks"]
    /\ UNCHANGED <<clock, sysStore, procStore, op, arg, df, tmp, res, nq,
                   stale, first, fig,
                   exc, fault>>

\* plt.xticks(rotation=45)
Xticks(c) ==
    /\ pc[c] = "xticks"
    /\ figs' = [figs EXCEPT ![Len(figs)] = SetXticks(@, 45)]
    /\ pc' = [pc EXCEPT ![c] = "layout"]
    /\ UNCHANGED <<clock, sysStore, procStore, op, arg, df, tmp, res, nq,
                   stale, first, fig,
                   exc, fault>>

\* plt.tight_layout(); return fig
Layout(c) ==
    /\ pc[c] = "layout"
    /\ figs' = [figs EXCEPT ![Len(figs)] = TightLayout(@)]
    /\ res' = [res EXCEPT ![c] = fig[c]]
    /\ pc' = [pc EXCEPT ![c] = "done"]
    /\ UNCHANGED <<clock, sysStore, procStore, op, arg, df, tmp, nq,
                   stale, first, fig,
                   exc, fault>>

ChartStep(c) ==
    \/ CallChart(c)
    \/ Subplots(c)
    \/ Placeholder(c)
    \/ Draw(c)
    \/ Title(c)
    \/ Legend(c)
    \/ Xticks(c)
    \/ Layout(c)
    \/ Return(c)

Environment == Tick \/ InsertSystemSample \/ InsertProcessSample

QueryStep(c) ==
    \/ Call(c)
    \/ SummaryStart(c)
    \/ SummaryEnd(c)
    \/ SummaryBuild(c)
    \/ AnalysisBuild(c)
    \/ Return(c)

\* one caller (the dialog's thread) and the collector
Next == Environment \/ \E c \in Callers : QueryStep(c)

Spec == Init /\ [][Next]_vars

\* a caller that repeats its calls, and the collector
NextRepeat ==
    \/ Tick
    \/ TotalRows < MaxRepeatRows /\ InsertSystemSample
    \/ TotalRows < MaxRepeatRows /\ InsertProcessSample
    \/ \E c \in Callers : QueryStep(c) \/ CallAgain(c)

SpecRepeat == Init /\ [][NextRepeat]_vars

\* two threads that build charts at once, and the collector
ConcurrentCallers == {1, 2}

NextConcurrent ==
    \/ TotalRows < MaxChartRows /\ InsertSystemSample
    \/ TotalRows < MaxChartRows /\ InsertProcessSample
    \/ \E c \in ConcurrentCallers : ChartStep(c)

SpecConcurrent == Init /\ [][NextConcurrent]_vars

\* ------------------------------------------------------------ store failure
\* the errors a store query can raise: a connection error, a query error
StoreErrors == {[type |-> "OperationalError"], [type |-> "DatabaseError"]}

AllOps == QueryOps \cup ChartOps

AllArgsOf(o) == IF o \in QueryOps THEN ArgsOf(o) ELSE ChartArgsOf(o)

\* df = self.db_manager.<query>(argument) raises e.  No method of the class
\* has a try statement, so the exception leaves the method (and, for
\* generate_top_processes_chart, get_top_processes under it) as it is:
\* df is never bound, nothing after the query runs, nothing is returned.
QueryFailsSwallowed(c, o, a, e) ==
    /\ op' = [op EXCEPT ![c] = o]
    /\ arg' = [arg EXCEPT ![c] = a]
    /\ nq' = [nq EXCEPT ![c] = 1]
    /\ fault' = [fault EXCEPT ![c] = e]
    /\ df' = [df EXCEPT ![c] = <<>>]
    /\ pc' = [pc EXCEPT ![c] = IF o = "get_top_processes" THEN "done"
                               ELSE IF o \in QueryOps THEN "build"
                               ELSE "subplots"]
    /\ res' = [res EXCEPT ![c] = IF o = "get_top_processes" THEN <<>> ELSE None]
    /\ UNCHANGED <<tmp, exc>>
QueryFails(c, o, a, e) ==
    /\ op' = [op EXCEPT ![c] = o]
    /\ arg' = [arg EXCEPT ![c] = a]
    /\ nq' = [nq EXCEPT ![c] = 1]
    /\ fault' = [fault EXCEPT ![c] = e]
    /\ exc' = [exc EXCEPT ![c] = e]
    /\ pc' = [pc EXCEPT ![c] = "raised"]
    /\ UNCHANGED <<df, tmp, res>>

\* a caller invokes a method and the store fails in its query
CallFails(c) ==
    /\ pc[c] = "idle"
    /\ \E o \in AllOps :
          \E a \in AllArgsOf(o) :
              \E e \in StoreErrors : QueryFails(c, o, a, e)
    /\ UNCHANGED <<clock, sysStore, procStore, stale, first, figs, fig>>

\* the caller has taken the exception
Caught(c) ==
    /\ pc[c] = "raised"
    /\ pc' = [pc EXCEPT ![c] = "idle"]
    /\ op' = [op EXCEPT ![c] = "none"]
    /\ arg' = [arg EXCEPT ![c] = 0]
    /\ nq' = [nq EXCEPT ![c] = 0]
    /\ exc' = [exc EXCEPT ![c] = None]
    /\ fault' = [fault EXCEPT ![c] = None]
    /\ UNCHANGED <<clock, sysStore, procStore, df, tmp, res, stale, first,
                   figs, fig>>

\* the store drops its first system sample, taken before now
RemoveSystemSample ==
    /\ Len(sysStore) > 0
    /\ sysStore[1].timestamp < clock
    /\ sysStore' = Tail(sysStore)
    /\ stale' = Changed
    /\ UNCHANGED <<clock, procStore, pc, op, arg, df, tmp, res, nq,
                   first, figs, fig, exc, fault>>

\* the store drops its first process sample, taken before now
RemoveProcessSample ==
    /\ Len(procStore) > 0
    /\ procStore[1].timestamp < clock
    /\ procStore' = Tail(procStore)
    /\ stale' = Changed
    /\ UNCHANGED <<clock, sysStore, pc, op, arg, df, tmp, res, nq,
                   first, figs, fig, exc, fault>>

\* the caller has not yet created, or begun to create, its last figure
FigureBudget == Len(figs) + PendingFigures < MaxEngineFigs

\* one caller using every method, against a store that gains rows and whose
\* queries may fail; followed until the caller's last figure
NextEngine ==
    \/ FigureBudget /\ TotalRows < MaxEngineRows /\ InsertSystemSample
    \/ FigureBudget /\ TotalRows < MaxEngineRows /\ InsertProcessSample
    \/ \E c \in Callers : FigureBudget /\ Call(c)
    \/ \E c \in Callers : FigureBudget /\ CallChart(c)
    \/ \E c \in Callers : FigureBudget /\ CallFails(c)
    \/ \E c \in Callers : \/ SummaryStart(c)
                          \/ SummaryEnd(c)
                          \/ SummaryBuild(c)
                          \/ AnalysisBuild(c)
                          \/ Return(c)
                          \/ Caught(c)
    \/ \E c \in Callers : \/ Subplots(c)
                          \/ Placeholder(c)
                          \/ Draw(c)
                          \/ Title(c)
                          \/ Legend(c)
                          \/ Xticks(c)
                          \/ Layout(c)

SpecEngine == Init /\ [][NextEngine]_vars

\* one caller's query calls against a store that gains and loses rows while
\* the clock advances
NextChurn ==
    \/ Tick
    \/ TotalRows < MaxEngineRows /\ InsertSystemSample
    \/ TotalRows < MaxEngineRows /\ InsertProcessSample
    \/ RemoveSystemSample
    \/ RemoveProcessSample
    \/ \E c \in Callers : QueryStep(c)

SpecChurn == Init /\ [][NextChurn]_vars

\* ================================================================= claims
Done(c, o) == pc[c] = "done" /\ op[c] = o

\* the exact (unrounded) sum of a column
RECURSIVE Sum(_)
Sum(col) == IF Len(col) = 0 THEN 0
            ELSE Sum(SubSeq(col, 1, Len(col) - 1)) + col[Len(col)]

Abs(x) == IF x < 0 THEN -x ELSE x

\* avg is the arithmetic mean Sum(col) / Len(col), as nearly as a float holds it
IsExactMean(avg, col) == avg = FRound(Sum(col), Len(col))

\* avg is Sum(col) / Len(col) to within the rounding of Len(col) float
\* operations: relative error at most n*u / (1 - n*u), u = 2^-Precision
IsRoundedMean(avg, col) ==
    LET n == Len(col)
    IN  Abs(avg * n - Sum(col)) * (Pow2(Precision) - n) <= n * Sum(col)

ValidInput(o, a) ==
    CASE o = "get_system_summary" -> a > 0
      [] o = "get_top_processes" -> a > 0
      [] o = "get_process_analysis" -> a # ""
      [] OTHER -> TRUE

ZeroFilled(r) ==
    /\ r.cpu_avg = 0 /\ r.cpu_max = 0
    /\ r.memory_avg = 0 /\ r.memory_max = 0
    /\ r.disk_avg = 0 /\ r.disk_max = 0
    /\ r.processes_avg = 0
    /\ r.data_points = 0

C2_AsStated ==
    \A c \in Callers :
        (Done(c, "get_system_summary") /\ Len(df[c]) > 0)
        => LET cpu == Column(df[c], "cpu_percent")
               mem == Column(df[c], "memory_percent")
               dsk == Column(df[c], "disk_percent")
           IN  /\ IsExactMean(res[c].cpu_avg, cpu)
               /\ MinOf(cpu) <= res[c].cpu_avg /\ res[c].cpu_avg <= MaxOf(cpu)
               /\ res[c].cpu_max = MaxOf(cpu)
               /\ IsExactMean(res[c].memory_avg, mem)
               /\ MinOf(mem) <= res[c].memory_avg /\ res[c].memory_avg <= MaxOf(mem)
               /\ res[c].memory_max = MaxOf(mem)
               /\ IsExactMean(res[c].disk_avg, dsk)
               /\ MinOf(dsk) <= res[c].disk_avg /\ res[c].disk_avg <= MaxOf(dsk)
               /\ res[c].disk_max = MaxOf(dsk)

\* C2, amended: for a non-empty result, each *_max is exactly the column's
\* maximum and each *_avg is the column's arithmetic mean to within
\* floating-point rounding (relative error at most n*u/(1 - n*u) for n rows
\* and unit roundoff u), so it may leave [min, max] by that much and no more.
C2_MeanWithinRounding ==
    \A c \in Callers :
        (Done(c, "get_system_summary") /\ Len(df[c]) > 0)
        => \A f \in {"cpu", "memory", "disk"} :
              LET col == Column(df[c], CASE f = "cpu" -> "cpu_percent"
                                         [] f = "memory" -> "memory_percent"
                                         [] f = "disk" -> "disk_percent")
                  avg == res[c][CASE f = "cpu" -> "cpu_avg"
                                  [] f = "memory" -> "memory_avg"
                                  [] f = "disk" -> "disk_avg"]
                  max == res[c][CASE f = "cpu" -> "cpu_max"
                                  [] f = "memory" -> "memory_max"
                                  [] f = "disk" -> "disk_max"]
                  n == Len(col)
              IN  /\ max \in {col[i] : i \in 1..n}
                  /\ \A i \in 1..n : col[i] <= max
                  /\ IsRoundedMean(avg, col)
                  /\ MinOf(col) * (Pow2(Precision) - 2 * n)
                        <= avg * (Pow2(Precision) - n)
                  /\ avg * (Pow2(Precision) - n) <= max * Pow2(Precision)

\* a summary whose cpu_avg rounding has taken below every sample
C2_Witness ==
    \E c \in Callers :
        /\ Done(c, "get_system_summary") /\ Len(df[c]) > 0
        /\ res[c].cpu_avg < MinOf(Column(df[c], "cpu_percent"))
        /\ res[c].cpu_max = MaxOf(Column(df[c], "cpu_percent"))

\* C3: for a non-empty result whose total_processes sum a float holds exactly,
\* processes_avg is the mean of total_processes truncated toward zero
\* (sum div count), never the rounded value.
C3_ProcessesAvgTruncated ==
    \A c \in Callers :
        (Done(c, "get_system_summary") /\ Len(df[c]) > 0
            /\ Sum(Column(df[c], "total_processes")) < Pow2(Precision))
        => res[c].processes_avg =
              Sum(Column(df[c], "total_processes")) \div Len(df[c])

\* total_processes = [1, 2] has given 1
C3_Witness ==
    \E c \in Callers :
        /\ Done(c, "get_system_summary")
        /\ Column(df[c], "total_processes") = <<1, 2>>
        /\ res[c].processes_avg = 1

\* C4: for a non-empty result, in any row order, start_time is the least
\* sample timestamp, end_time the greatest and data_points the number of rows
\* returned; the nominal bounds now - windowHours and now are not used.
C4_ObservedWindow ==
    \A c \in Callers :
        (Done(c, "get_system_summary") /\ Len(df[c]) > 0)
        => /\ \E i \in 1..Len(df[c]) : res[c].start_time = df[c][i].timestamp
           /\ \E i \in 1..Len(df[c]) : res[c].end_time = df[c][i].timestamp
           /\ \A i \in 1..Len(df[c]) :
                 /\ res[c].start_time <= df[c][i].timestamp
                 /\ df[c][i].timestamp <= res[c].end_time
           /\ res[c].data_points = Len(df[c])

\* rows returned newest first, and a window narrower than the nominal one
C4_Witness ==
    \E c \in Callers :
        /\ Done(c, "get_system_summary") /\ Len(df[c]) > 1
        /\ df[c][1].timestamp > df[c][2].timestamp
        /\ res[c].start_time = df[c][2].timestamp
        /\ res[c].end_time = df[c][1].timestamp
        /\ res[c].start_time # clock - arg[c]

\* C5 as stated, for valid inputs: a query call repeated with the same
\* argument, the store unchanged since the first call queried it, returns
\* what the first call returned, however much time has passed.
C5_AsStated ==
    \A c \in Callers :
        (pc[c] = "done" /\ first[c] # None /\ ~stale[c]
            /\ ValidInput(op[c], arg[c]))
        => res[c] = first[c].res

\* C5, amended: a query call repeated with the same argument returns what the
\* first call returned whenever the store returns the same rows to both,
\* except that the start_time and end_time of an empty system summary follow
\* the clock at each call.
C5_SameRowsSameOutput ==
    \A c \in Callers :
        (pc[c] = "done" /\ first[c] # None /\ first[c].df = df[c])
        => IF op[c] = "get_system_summary" /\ Len(df[c]) = 0
           THEN [res[c] EXCEPT !.start_time = 0, !.end_time = 0]
                  = [first[c].res EXCEPT !.start_time = 0, !.end_time = 0]
           ELSE res[c] = first[c].res

\* a non-empty summary repeated on the same rows after the clock has moved
C5_Witness ==
    \E c \in Callers :
        /\ Done(c, "get_system_summary") /\ first[c] # None
        /\ first[c].df = df[c] /\ Len(df[c]) > 0
        /\ res[c] = first[c].res
        /\ res[c].end_time < clock

\* C6: a call with a non-positive windowHours or limit, or an empty
\* processName, issues no store query and returns no result.
C6_InvalidInputRejected ==
    \A c \in Callers :
        (op[c] \in QueryOps /\ ~ValidInput(op[c], arg[c]))
        => nq[c] = 0 /\ res[c] = None

\* C8: when the store returns no process samples for the requested name,
\* get_process_analysis returns a record with that name, cpu_avg, cpu_max,
\* memory_avg and memory_max 0, data_points 0 and an empty trend series.
C8_EmptyAnalysis ==
    \A c \in Callers :
        (Done(c, "get_process_analysis") /\ Len(df[c]) = 0)
        => res[c] = [name |-> arg[c], cpu_avg |-> 0, cpu_max |-> 0,
                     memory_avg |-> 0, memory_max |-> 0, data_points |-> 0,
                     trend_data |-> <<>>]

\* an analysis of "ghost" while the store holds samples of other processes
C8_Witness ==
    \E c \in Callers :
        /\ Done(c, "get_process_analysis") /\ arg[c] = "ghost"
        /\ Len(df[c]) = 0 /\ Len(procStore) > 0
        /\ res[c].name = "ghost" /\ res[c].data_points = 0

\* C9 as stated: for a non-empty result, cpu_avg and memory_avg are the
\* arithmetic means of cpu_percent and memory_mb, cpu_max and memory_max the
\* maxima, data_points the number of samples and the trend series the
\* returned rows in the same order.
C9_AsStated ==
    \A c \in Callers :
        (Done(c, "get_process_analysis") /\ Len(df[c]) > 0)
        => /\ IsExactMean(res[c].cpu_avg, Column(df[c], "cpu_percent"))
           /\ res[c].cpu_max = MaxOf(Column(df[c], "cpu_percent"))
           /\ IsExactMean(res[c].memory_avg, Column(df[c], "memory_mb"))
           /\ res[c].memory_max = MaxOf(Column(df[c], "memory_mb"))
           /\ res[c].data_points = Len(df[c])
           /\ res[c].trend_data = df[c]

\* C9, amended: for a non-empty result, cpu_max and memory_max are exactly
\* the maxima, data_points the number of samples, the trend series the
\* returned rows in the same order, all of the requested name, and cpu_avg
\* and memory_avg the arithmetic means to within floating-point rounding
\* (relative error at most n*u/(1 - n*u) for n rows and unit roundoff u).
C9_AnalysisWithinRounding ==
    \A c \in Callers :
        (Done(c, "get_process_analysis") /\ Len(df[c]) > 0)
        => LET cpu == Column(df[c], "cpu_percent")
               mem == Column(df[c], "memory_mb")
               n == Len(df[c])
           IN  /\ res[c].name = arg[c]
               /\ IsRoundedMean(res[c].cpu_avg, cpu)
               /\ res[c].cpu_max \in {cpu[i] : i \in 1..n}
               /\ \A i \in 1..n : cpu[i] <= res[c].cpu_max
               /\ IsRoundedMean(res[c].memory_avg, mem)
               /\ res[c].memory_max \in {mem[i] : i \in 1..n}
               /\ \A i \in 1..n : mem[i] <= res[c].memory_max
               /\ res[c].data_points = n
               /\ Len(res[c].trend_data) = n
               /\ \A i \in 1..n :
                     /\ res[c].trend_data[i] = df[c][i]
                     /\ res[c].trend_data[i].process_name = arg[c]

\* an analysis of three samples whose cpu_avg is not their mean
C9_Witness ==
    \E c \in Callers :
        /\ Done(c, "get_process_analysis") /\ Len(df[c]) = 3
        /\ ~IsExactMean(res[c].cpu_avg, Column(df[c], "cpu_percent"))
        /\ res[c].trend_data = df[c]

SortedByAvgCpu(r) ==
    \A i, j \in 1..Len(r) : i < j => r[i].avg_cpu >= r[j].avg_cpu

\* C10: for a positive limit, get_top_processes returns the first
\* min(limit, size) entries of the store's ranking, in the ranking's order
\* (avg_cpu descending) and unpadded: at most limit entries, and the whole
\* ranking when limit is at least its size.
C10_TopProcesses ==
    [][\A c \in Callers :
          (pc[c] = "idle" /\ pc'[c] = "done" /\ op'[c] = "get_top_processes"
              /\ arg'[c] > 0)
          => LET full == Ranked({procStore[i].process_name :
                                    i \in 1..Len(procStore)})
                 k == IF arg'[c] < Len(full) THEN arg'[c] ELSE Len(full)
             IN  /\ res'[c] = SubSeq(full, 1, k)
                 /\ Len(res'[c]) <= arg'[c]
                 /\ SortedByAvgCpu(res'[c])
                 /\ arg'[c] >= Len(full) => res'[c] = full]_vars

\* limit 1 has cut a ranking of two, and a larger limit returned both
C10_Witness ==
    \E c \in Callers :
        /\ Done(c, "get_top_processes")
        /\ Len(res[c]) = 2 /\ arg[c] > 2
        /\ res[c][1].avg_cpu > res[c][2].avg_cpu

\* the figure a chart call builds when no other call runs beside it
FigureAlone(o, a, d) ==
    IF Len(d) = 0 THEN PlaceholderFigure(NewFigure, o, a)
    ELSE IF o = "generate_process_trend_chart"
    THEN TightLayout(SetXticks(TrendChartLegend(
             SetTitle(ChartDraw(NewFigure, o, a, d), TrendTitle(a))), 45))
    ELSE TightLayout(SetXticks(ChartDraw(NewFigure, o, a, d), 45))

\* C7: under every interleaving of concurrent calls, the figure a chart call
\* returns (points, title, labels, layout) is the one it would have built
\* running alone on the rows its query returned.
C7_NoInterference ==
    \A c \in ConcurrentCallers :
        (pc[c] = "done" /\ op[c] \in ChartOps)
        => figs[res[c]] = FigureAlone(op[c], arg[c], df[c])

\* C11: when a store query fails, the call that issued it ends with that same
\* error and nothing else: the store was queried once (no retry), the call
\* does not go on to build a zero-filled or no-data result (not swallowed),
\* no figure is created and no result is returned.
C11_StoreFailurePropagated ==
    \A c \in Callers :
        /\ fault[c] # None => pc[c] = "raised"
        /\ pc[c] = "raised"
           => /\ fault[c] \in StoreErrors
              /\ exc[c] = fault[c]
              /\ nq[c] = 1
              /\ res[c] = None
              /\ df[c] = <<>>
              /\ fig[c] = 0

\* generate_top_processes_chart, whose query goes through get_top_processes,
\* has ended with the store's error while the store holds process samples
C11_Witness ==
    \E c \in Callers :
        /\ pc[c] = "raised"
        /\ op[c] = "generate_top_processes_chart"
        /\ exc[c] = [type |-> "DatabaseError"]
        /\ Len(procStore) > 0

\* the points of a line: (x[i], y[i]) for each i
LinePoints(line) == [i \in 1..Len(line.x) |-> <<line.x[i], line.y[i]>>]

\* one (row.xcol, row.ycol) pair per row of d, in d's order
RowPoints(d, xcol, ycol) == [i \in 1..Len(d) |-> <<d[i][xcol], d[i][ycol]>>]

\* the axes hold nothing but the one line through the rows' points
OneLineOf(ax, d, ycol) ==
    /\ Len(ax.lines) = 1
    /\ Len(ax.lines[1].x) = Len(d)
    /\ Len(ax.lines[1].y) = Len(d)
    /\ LinePoints(ax.lines[1]) = RowPoints(d, "timestamp", ycol)
    /\ ax.bars = <<>>

\* C12: a finished chart call returns a figure that holds exactly one point
\* per row the store returned, in the store's row order (a line of
\* (timestamp, value) points for the CPU, memory and process-trend charts, the
\* latter with one line for cpu_percent and one for memory_mb; one bar per
\* ranking row for the top-processes chart); when the store returned no rows
\* the figure holds no points and only the no-data text, which carries the
\* process name for the process-trend chart.
C12_OnePointPerRow ==
    \A c \in Callers :
        (pc[c] = "done" /\ op[c] \in ChartOps)
        => LET f == figs[res[c]]
               d == df[c]
           IN  IF Len(d) = 0
               THEN /\ Len(f.axes) = 1
                    /\ f.axes[1].lines = <<>>
                    /\ f.axes[1].bars = <<>>
                    /\ f.axes[1].texts =
                          IF op[c] = "generate_process_trend_chart"
                          THEN << <<"No data available for", arg[c]>> >>
                          ELSE << <<"No data available">> >>
               ELSE CASE op[c] = "generate_cpu_usage_chart" ->
                           /\ Len(f.axes) = 1
                           /\ OneLineOf(f.axes[1], d, "cpu_percent")
                      [] op[c] = "generate_memory_usage_chart" ->
                           /\ Len(f.axes) = 1
                           /\ OneLineOf(f.axes[1], d, "memory_percent")
                      [] op[c] = "generate_top_processes_chart" ->
                           /\ Len(f.axes) = 1
                           /\ f.axes[1].lines = <<>>
                           /\ Len(f.axes[1].bars) = Len(d)
                           /\ \A i \in 1..Len(d) :
                                 /\ f.axes[1].bars[i].x = d[i].name
                                 /\ f.axes[1].bars[i].height = d[i].avg_cpu
                      [] op[c] = "generate_process_trend_chart" ->
                           /\ Len(f.axes) = 2
                           /\ OneLineOf(f.axes[1], d, "cpu_percent")
                           /\ OneLineOf(f.axes[2], d, "memory_mb")

\* a CPU chart of two rows whose values differ, drawn in the store's order
C12_Witness ==
    \E c \in Callers :
        /\ pc[c] = "done"
        /\ op[c] = "generate_cpu_usage_chart"
        /\ Len(df[c]) = 2
        /\ df[c][1].cpu_percent > df[c][2].cpu_percent
        /\ figs[res[c]].axes[1].lines[1].y
              = <<df[c][1].cpu_percent, df[c][2].cpu_percent>>

\* every field of summary r is computed from the one row set d
SummaryOfRows(r, d) ==
    /\ r.data_points = Len(d)
    /\ r.cpu_avg = Mean(Column(d, "cpu_percent"))
    /\ r.cpu_max = MaxOf(Column(d, "cpu_percent"))
    /\ r.memory_avg = Mean(Column(d, "memory_percent"))
    /\ r.memory_max = MaxOf(Column(d, "memory_percent"))
    /\ r.disk_avg = Mean(Column(d, "disk_percent"))
    /\ r.disk_max = MaxOf(Column(d, "disk_percent"))
    /\ r.processes_avg = ToInt(IntMean(Column(d, "total_processes")))
    /\ \E i \in 1..Len(d) : r.start_time = d[i].timestamp
    /\ \A i \in 1..Len(d) : r.start_time <= d[i].timestamp
    /\ \E i \in 1..Len(d) : r.end_time = d[i].timestamp
    /\ \A i \in 1..Len(d) : r.end_time >= d[i].timestamp

\* every field of analysis r is computed from the one row set d
AnalysisOfRows(r, d) ==
    /\ r.data_points = Len(d)
    /\ r.trend_data = d
    /\ Len(d) > 0 => /\ r.cpu_avg = Mean(Column(d, "cpu_percent"))
                     /\ r.cpu_max = MaxOf(Column(d, "cpu_percent"))
                     /\ r.memory_avg = Mean(Column(d, "memory_mb"))
                     /\ r.memory_max = MaxOf(Column(d, "memory_mb"))
    /\ Len(d) = 0 => /\ r.cpu_avg = 0 /\ r.cpu_max = 0
                     /\ r.memory_avg = 0 /\ r.memory_max = 0

\* C13: a query call issues one store query, and every field of the record it
\* returns is computed from the rows that one query returned, whatever the
\* store gains or loses while the call runs: a summary's averages, maxima,
\* data_points, start_time and end_time, an analysis's averages, maxima,
\* data_points and trend series, and the ranking of get_top_processes.
C13_OneQueryOneRowSet ==
    \A c \in Callers :
        /\ (op[c] \in QueryOps /\ pc[c] # "idle") => nq[c] = 1
        /\ (Done(c, "get_system_summary") /\ Len(df[c]) > 0)
           => SummaryOfRows(res[c], df[c])
        /\ (Done(c, "get_system_summary") /\ Len(df[c]) = 0)
           => ZeroFilled(res[c])
        /\ Done(c, "get_process_analysis") => AnalysisOfRows(res[c], df[c])
        /\ Done(c, "get_top_processes") => res[c] = df[c]

\* a summary returned after the store has lost a row the call had read:
\* the record describes the rows of the call's query, not the store as it is
C13_Witness ==
    \E c \in Callers :
        /\ Done(c, "get_system_summary")
        /\ stale[c]
        /\ Len(df[c]) > 0
        /\ Len(sysStore) < Len(df[c])
        /\ res[c].data_points = Len(df[c])
        /\ nq[c] = 1

====
